---- MODULE Spec2Model ----
(***************************************************************************)
(* Model of 321.py: two IPO calendar queries over an external data         *)
(* provider (get_upcoming_ipos, get_past_ipos) and the __main__ driver     *)
(* that calls them and prints the results.                                 *)
(*                                                                         *)
(* A DataFrame is a record of its column labels, its index labels and its  *)
(* rows (each row a sequence of cells, positionally aligned with the       *)
(* columns).  A cell is <<source field, value>>: the value is the date for *)
(* a date field and the provider's row number for every other field, so    *)
(* that both the column a value came from and the row it came from stay    *)
(* visible after projection, renaming and sorting.                         *)
(***************************************************************************)
EXTENDS Integers, Sequences, FiniteSets, TLC

\* ---- bounds of the model ------------------------------------------------
MaxRows  == 3      \* most rows in one provider response to a query called on its own
DriverRows == 1    \* most rows in one provider response during a run of the script
MaxDate  == 3      \* dates are 1..MaxDate
DriverDates == 2   \* dates are 1..DriverDates during a run of the script
MaxLimit == 2      \* limits tried on the query functions: -MaxLimit..MaxLimit and the default

\* ---- program constants --------------------------------------------------
DefaultLimit  == 10
UpcomingLimit == 10
PastLimit     == 10

UpcomingFields == <<"name", "expected_date", "expected_shares_offered",
                    "price_low", "price_high", "exchange">>
UpcomingLabels == <<"Company Name", "Expected Date", "Shares Offered (M)",
                    "Price Low ($)", "Price High ($)", "Exchange">>
UpcomingSortKey == "Expected Date"
PastFields == <<"name", "date", "price", "exchange">>
PastLabels == <<"Company Name", "IPO Date", "IPO Price ($)", "Exchange">>
PastSortKey == "IPO Date"

\* ---- DataFrames ---------------------------------------------------------
\* pd.DataFrame()
EmptyDataFrame == [columns |-> <<>>, index |-> <<>>, data |-> <<>>]

\* variant: the emptiness test written as "df is None", never true of a frame
EmptyIsNone(df) == FALSE

\* df.empty: true when any axis has length 0
Empty(df) == Len(df.index) = 0 \/ Len(df.columns) = 0

Range(s) == {s[i] : i \in 1..Len(s)}

ColPos(df, c) == CHOOSE j \in 1..Len(df.columns) : df.columns[j] = c

\* df[[...]] raises KeyError unless every requested label is a column
HasColumns(df, fields) == Range(fields) \subseteq Range(df.columns)

\* variant: the first k columns taken by position instead of by label
SelectPositional(df, fields) ==
    [columns |-> fields,
     index   |-> df.index,
     data    |-> [k \in 1..Len(df.data) |-> [j \in 1..Len(fields) |-> df.data[k][j]]]]

\* df[[f1, ..., fk]]
Select(df, fields) ==
    [columns |-> fields,
     index   |-> df.index,
     data    |-> [k \in 1..Len(df.data) |->
                    [j \in 1..Len(fields) |-> df.data[k][ColPos(df, fields[j])]]]]

\* df.columns = [...]
SetColumns(df, labels) == [df EXCEPT !.columns = labels]

Perms(n) == {p \in [1..n -> 1..n] : \A i, j \in 1..n : p[i] = p[j] => i = j}

KeyOf(df, by, k) == df.data[k][ColPos(df, by)][2]

\* variant: the ascending flag is ignored
InOrderAscending(a, b, ascending) == a <= b

InOrder(a, b, ascending) == IF ascending THEN a <= b ELSE a >= b

\* variant: the frame is returned in the provider's order
SortValuesSkipped(df, by, ascending) == {df}

\* df.sort_values(by=..., ascending=...): the rows and their index labels are
\* permuted together into key order.  The default sort kind is not stable, so
\* rows with equal keys may come out in any relative order.
SortValues(df, by, ascending) ==
    LET n == Len(df.index)
        sorted(p) == \A i \in 1..(n - 1) :
                        InOrder(KeyOf(df, by, p[i]), KeyOf(df, by, p[i + 1]), ascending)
    IN  {[columns |-> df.columns,
          index   |-> [i \in 1..n |-> df.index[p[i]]],
          data    |-> [i \in 1..n |-> df.data[p[i]]]] : p \in {q \in Perms(n) : sorted(q)}}

\* variant: the sorted frame keeps the index labels it was sorted with
ResetIndexSkipped(df) == df

\* df.reset_index(drop=True)
ResetIndex(df) == [df EXCEPT !.index = [i \in 1..Len(df.index) |-> i - 1]]

\* ---- the provider -------------------------------------------------------
DateFields == {"expected_date", "date"}

Cell(f, k, d) == <<f, IF f \in DateFields THEN d ELSE k>>

\* column layouts a provider response may have
Layouts ==
    { UpcomingFields,
      <<"symbol", "exchange", "price_high", "price_low", "expected_date",
        "name", "expected_shares_offered">>,
      PastFields,
      <<"symbol", "exchange", "date", "name", "price">>,
      <<"name", "exchange">>,
      <<>> }

DateSeqs(rows, dates) == UNION {[1..n -> 1..dates] : n \in 0..rows}

\* ipo_data.to_dataframe() of a response with the given layout and dates
ProviderFrame(layout, dates) ==
    [columns |-> layout,
     index   |-> [k \in 1..Len(dates) |-> k - 1],
     data    |-> [k \in 1..Len(dates) |->
                    [j \in 1..Len(layout) |-> Cell(layout[j], k, dates[k])]]]

CallRaises == [status |-> "call_raises", df |-> EmptyDataFrame]
ConvRaises == [status |-> "conv_raises", df |-> EmptyDataFrame]

\* what the provider can answer to one query; an SDK that is importable but
\* not initialised fails every call
Responses(s, rows, dates) ==
    IF s = "uninitialized" THEN {CallRaises}
    ELSE {CallRaises, ConvRaises} \cup
         {[status |-> "ok", df |-> ProviderFrame(l, d)] : l \in Layouts, d \in DateSeqs(rows, dates)}

\* ---- console lines ------------------------------------------------------
Line(t, n, e, df) == [text |-> t, n |-> n, detail |-> e, table |-> df]
Text(t) == Line(t, 0, "", EmptyDataFrame)

UpcomingHeader(limit) == Line("--- Fetching the next N Upcoming IPOs... ---", limit, "", EmptyDataFrame)
UpcomingNone  == Text("No upcoming IPOs found for the specified limit.")
UpcomingError == Text("ERROR: Could not fetch upcoming IPO data.")
PastHeader(limit) == Line("--- Fetching the last N Recent Past IPOs... ---", limit, "", EmptyDataFrame)
PastNone  == Text("No recent past IPOs found for the specified limit.")
PastError == Text("ERROR: Could not fetch past IPO data.")
Details(e) == Line("Please ensure the 'openbb' library is installed and initialized correctly. Details:",
                   0, e, EmptyDataFrame)
Banner == Text("======================================================================")
UpcomingTitle == Text("Upcoming IPOs:")
PastTitle == Text("Recent Past IPOs:")
Table(df) == Line("to_markdown", 0, "", df)
Finished == Text("Script Finished.")

\* ---- the queries --------------------------------------------------------
Return(df, lines) == [ret |-> df, prints |-> lines, raised |-> FALSE]

\* the body of the try block up to the column selection: the exception it
\* raises, or "" when it raises none
Raised(resp, fields) ==
    IF resp.status = "call_raises" THEN "ProviderError"
    ELSE IF resp.status = "conv_raises" THEN "ConversionError"
    ELSE IF ~Empty(resp.df) /\ ~HasColumns(resp.df, fields) THEN "KeyError"
    ELSE ""

\* variant: a handler that catches the provider's errors only
UpcomingExceptNarrow(limit, e) ==
    IF e = "KeyError"
    THEN [ret |-> EmptyDataFrame, prints |-> <<UpcomingHeader(limit)>>, raised |-> TRUE]
    ELSE Return(EmptyDataFrame, <<UpcomingHeader(limit), UpcomingError, Details(e)>>)

\* except Exception as e: of get_upcoming_ipos
UpcomingExcept(limit, e) ==
    Return(EmptyDataFrame, <<UpcomingHeader(limit), UpcomingError, Details(e)>>)

get_upcoming_ipos(limit, resp) ==
    LET e == Raised(resp, UpcomingFields)
    IN  IF e # "" THEN {UpcomingExcept(limit, e)}
        ELSE IF Empty(resp.df)
        THEN {Return(resp.df, <<UpcomingHeader(limit), UpcomingNone>>)}
        ELSE {Return(ResetIndex(s), <<UpcomingHeader(limit)>>) :
                s \in SortValues(SetColumns(Select(resp.df, UpcomingFields), UpcomingLabels),
                                 UpcomingSortKey, TRUE)}

\* except Exception as e: of get_past_ipos
PastExcept(limit, e) ==
    Return(EmptyDataFrame, <<PastHeader(limit), PastError, Details(e)>>)

get_past_ipos(limit, resp) ==
    LET e == Raised(resp, PastFields)
    IN  IF e # "" THEN {PastExcept(limit, e)}
        ELSE IF Empty(resp.df)
        THEN {Return(resp.df, <<PastHeader(limit), PastNone>>)}
        ELSE {Return(ResetIndex(s), <<PastHeader(limit)>>) :
                s \in SortValues(SetColumns(Select(resp.df, PastFields), PastLabels),
                                 PastSortKey, FALSE)}

\* ---- state --------------------------------------------------------------
VARIABLES
    pc,           \* position of the script
    sdk,          \* "missing" | "uninitialized" | "ready": the openbb package
    hook,         \* "not_called" | "ok" | "failed": obb.system.log_system_info()
    out,          \* lines printed on stdout so far
    upcoming_df,  \* the driver's upcoming_df
    past_df,      \* the driver's past_df
    exitCode,     \* -1 while running, then the exit status of the process
    calls,        \* the query calls made so far, <<function, limit>> each
    last          \* the latest query call: its arguments, the provider's answer, its outcome

vars == <<pc, sdk, hook, out, upcoming_df, past_df, exitCode, calls, last>>

NoCall == [fn |-> "none", limit |-> 0, resp |-> CallRaises,
           ret |-> EmptyDataFrame, prints |-> <<>>, raised |-> FALSE]

Called(fn, limit, resp, r) ==
    [fn |-> fn, limit |-> limit, resp |-> resp,
     ret |-> r.ret, prints |-> r.prints, raised |-> r.raised]

Init ==
    /\ pc = "import"
    /\ sdk \in {"missing", "uninitialized", "ready"}
    /\ hook = "not_called"
    /\ out = <<>>
    /\ upcoming_df = EmptyDataFrame
    /\ past_df = EmptyDataFrame
    /\ exitCode = -1
    /\ calls = <<>>
    /\ last = NoCall

\* lines 1-3: the module's imports; a failing import ends the process with a
\* traceback and status 1 before any function is defined
Import ==
    /\ pc = "import"
    /\ IF sdk = "missing"
       THEN pc' = "import_error" /\ exitCode' = 1
       ELSE pc' = "init" /\ exitCode' = exitCode
    /\ UNCHANGED <<sdk, hook, out, upcoming_df, past_df, calls, last>>

\* variant: the hook called without the try block around it
LogSystemInfoUncaught ==
    /\ pc = "init"
    /\ \E ok \in BOOLEAN :
          /\ hook' = IF ok THEN "ok" ELSE "failed"
          /\ IF ok THEN pc' = "upcoming" /\ exitCode' = exitCode
                   ELSE pc' = "crashed" /\ exitCode' = 1
    /\ UNCHANGED <<sdk, out, upcoming_df, past_df, calls, last>>

\* lines 80-84: try: obb.system.log_system_info() except Exception: pass
LogSystemInfo ==
    /\ pc = "init"
    /\ \E ok \in BOOLEAN : hook' = IF ok THEN "ok" ELSE "failed"
    /\ pc' = "upcoming"
    /\ UNCHANGED <<sdk, out, upcoming_df, past_df, exitCode, calls, last>>

\* line 87: upcoming_df = get_upcoming_ipos(limit=10)
FetchUpcoming ==
    /\ pc = "upcoming"
    /\ \E resp \in Responses(sdk, DriverRows, DriverDates) : \E r \in get_upcoming_ipos(UpcomingLimit, resp) :
          /\ last' = Called("get_upcoming_ipos", UpcomingLimit, resp, r)
          /\ calls' = Append(calls, <<"get_upcoming_ipos", UpcomingLimit>>)
          /\ out' = out \o r.prints
          /\ IF r.raised
             THEN pc' = "crashed" /\ exitCode' = 1 /\ upcoming_df' = upcoming_df
             ELSE pc' = "show_upcoming" /\ exitCode' = exitCode /\ upcoming_df' = r.ret
    /\ UNCHANGED <<sdk, hook, past_df>>

\* variant: the script stops when the first query has nothing to show
ShowUpcomingOrStop ==
    /\ pc = "show_upcoming"
    /\ IF ~Empty(upcoming_df)
       THEN /\ out' = out \o <<Banner, UpcomingTitle, Table(upcoming_df), Banner>>
            /\ pc' = "past"
            /\ exitCode' = exitCode
       ELSE /\ out' = out
            /\ pc' = "crashed"
            /\ exitCode' = 1
    /\ UNCHANGED <<sdk, hook, upcoming_df, past_df, calls, last>>

\* lines 90-94
ShowUpcoming ==
    /\ pc = "show_upcoming"
    /\ out' = IF ~Empty(upcoming_df)
              THEN out \o <<Banner, UpcomingTitle, Table(upcoming_df), Banner>>
              ELSE out
    /\ pc' = "past"
    /\ UNCHANGED <<sdk, hook, upcoming_df, past_df, exitCode, calls, last>>

\* line 97: past_df = get_past_ipos(limit=10)
FetchPast ==
    /\ pc = "past"
    /\ \E resp \in Responses(sdk, DriverRows, DriverDates) : \E r \in get_past_ipos(PastLimit, resp) :
          /\ last' = Called("get_past_ipos", PastLimit, resp, r)
          /\ calls' = Append(calls, <<"get_past_ipos", PastLimit>>)
          /\ out' = out \o r.prints
          /\ IF r.raised
             THEN pc' = "crashed" /\ exitCode' = 1 /\ past_df' = past_df
             ELSE pc' = "show_past" /\ exitCode' = exitCode /\ past_df' = r.ret
    /\ UNCHANGED <<sdk, hook, upcoming_df>>

\* variant: the table printed without the emptiness test
ShowPastAlways ==
    /\ pc = "show_past"
    /\ out' = out \o <<Banner, PastTitle, Table(past_df), Banner>>
    /\ pc' = "finish"
    /\ UNCHANGED <<sdk, hook, upcoming_df, past_df, exitCode, calls, last>>

\* lines 100-104
ShowPast ==
    /\ pc = "show_past"
    /\ out' = IF ~Empty(past_df)
              THEN out \o <<Banner, PastTitle, Table(past_df), Banner>>
              ELSE out
    /\ pc' = "finish"
    /\ UNCHANGED <<sdk, hook, upcoming_df, past_df, exitCode, calls, last>>

\* line 106, then the interpreter exits normally
Finish ==
    /\ pc = "finish"
    /\ out' = Append(out, Finished)
    /\ pc' = "done"
    /\ exitCode' = 0
    /\ UNCHANGED <<sdk, hook, upcoming_df, past_df, calls, last>>

Next ==
    \/ Import
    \/ LogSystemInfo
    \/ FetchUpcoming
    \/ ShowUpcoming
    \/ FetchPast
    \/ ShowPast
    \/ Finish

Spec == Init /\ [][Next]_vars

\* the script runs to its end once started: every step is taken eventually
FairSpec == Spec /\ WF_vars(Next)

\* ---- the query functions on their own, for any limit --------------------
\* One call of one query function from a session that has imported the module.
Limits == ((0 - MaxLimit)..MaxLimit) \cup {DefaultLimit}

QueryInit ==
    /\ pc = "imported"
    /\ sdk \in {"uninitialized", "ready"}
    /\ hook = "not_called"
    /\ out = <<>>
    /\ upcoming_df = EmptyDataFrame
    /\ past_df = EmptyDataFrame
    /\ exitCode = -1
    /\ calls = <<>>
    /\ last = NoCall

CallUpcoming ==
    /\ pc = "imported"
    /\ \E limit \in Limits : \E resp \in Responses(sdk, MaxRows, MaxDate) : \E r \in get_upcoming_ipos(limit, resp) :
          last' = Called("get_upcoming_ipos", limit, resp, r)
    /\ pc' = "returned"
    /\ UNCHANGED <<sdk, hook, out, upcoming_df, past_df, exitCode, calls>>

CallPast ==
    /\ pc = "imported"
    /\ \E limit \in Limits : \E resp \in Responses(sdk, MaxRows, MaxDate) : \E r \in get_past_ipos(limit, resp) :
          last' = Called("get_past_ipos", limit, resp, r)
    /\ pc' = "returned"
    /\ UNCHANGED <<sdk, hook, out, upcoming_df, past_df, exitCode, calls>>

QueryNext == CallUpcoming \/ CallPast

QuerySpec == QueryInit /\ [][QueryNext]_vars

\* ---- properties of one query call ---------------------------------------
IsUpcoming == last.fn = "get_upcoming_ipos"
IsPast == last.fn = "get_past_ipos"
Queried == IsUpcoming \/ IsPast

NamedFields == IF IsUpcoming THEN UpcomingFields ELSE PastFields
HeaderLine == IF IsUpcoming THEN UpcomingHeader(last.limit) ELSE PastHeader(last.limit)
NoneLine   == IF IsUpcoming THEN UpcomingNone ELSE PastNone
ErrorLine  == IF IsUpcoming THEN UpcomingError ELSE PastError

Count(lines, l) == Cardinality({i \in 1..Len(lines) : lines[i] = l})
RowCount(df) == Len(df.index)
ProviderRows == RowCount(last.resp.df)

\* the provider answered with rows that carry every named field
GoodResponse ==
    /\ Queried
    /\ last.resp.status = "ok"
    /\ ProviderRows >= 1
    /\ \A j \in 1..Len(NamedFields) : \E m \in 1..Len(last.resp.df.columns) :
          last.resp.df.columns[m] = NamedFields[j]

\* the provider answered with a frame that has rows and columns
NonEmptyResponse ==
    /\ Queried
    /\ last.resp.status = "ok"
    /\ ProviderRows >= 1
    /\ Len(last.resp.df.columns) >= 1

HasLabel(df, c) == \E m \in 1..Len(df.columns) : df.columns[m] = c

\* the call failed inside the try block: the provider call, the conversion,
\* or the column selection on a frame that is not empty
FailedInside ==
    /\ Queried
    /\ \/ last.resp.status \in {"call_raises", "conv_raises"}
       \/ /\ NonEmptyResponse
          /\ \E j \in 1..Len(NamedFields) : \A m \in 1..Len(last.resp.df.columns) :
                last.resp.df.columns[m] # NamedFields[j]

\* the values of the column labelled c of the returned frame, top to bottom
ColumnValues(df, c) ==
    LET j == CHOOSE m \in 1..Len(df.columns) : df.columns[m] = c
    IN  [i \in 1..RowCount(df) |-> df.data[i][j][2]]

ProviderDates == [k \in 1..ProviderRows |->
                    LET f == IF IsUpcoming THEN "expected_date" ELSE "date"
                        m == CHOOSE x \in 1..Len(last.resp.df.columns) : last.resp.df.columns[x] = f
                    IN  last.resp.df.data[k][m][2]]

\* C1: when the provider call, the conversion of its answer or the column
\* selection on a non-empty answer fails, the query prints its error message,
\* returns an empty frame and raises nothing to its caller, whatever the limit.
C1_FailureGivesEmptyResult ==
    FailedInside =>
        /\ ~last.raised
        /\ last.ret = EmptyDataFrame
        /\ Count(last.prints, ErrorLine) = 1
        /\ \E i \in 1..Len(last.prints) :
              last.prints[i].text = Details("").text /\ last.prints[i].detail # ""

\* an answer with rows that lacks a named field, for a limit below its row count
C1_Witness ==
    /\ IsUpcoming
    /\ last.resp.status = "ok"
    /\ last.resp.df.columns = <<"name", "exchange">>
    /\ ProviderRows = 2
    /\ last.limit = 1
    /\ last.ret = EmptyDataFrame
    /\ Count(last.prints, UpcomingError) = 1

\* C4: when the provider answers with zero rows, the query returns that frame
\* unchanged (its columns neither projected nor renamed) and prints the
\* informational message and no error message.
C4_ZeroRowsReturnedUnchanged ==
    (Queried /\ last.resp.status = "ok" /\ ProviderRows = 0) =>
        /\ ~last.raised
        /\ last.ret = last.resp.df
        /\ last.prints = <<HeaderLine, NoneLine>>
        /\ Count(last.prints, ErrorLine) = 0

C4_Witness ==
    /\ IsPast
    /\ last.resp.status = "ok"
    /\ ProviderRows = 0
    /\ last.resp.df.columns = <<"symbol", "exchange", "date", "name", "price">>
    /\ last.ret.columns = <<"symbol", "exchange", "date", "name", "price">>
    /\ Count(last.prints, PastNone) = 1

\* the display label of each source field
SourceField(label) ==
    CASE label = "Company Name"       -> "name"
      [] label = "Expected Date"      -> "expected_date"
      [] label = "Shares Offered (M)" -> "expected_shares_offered"
      [] label = "Price Low ($)"      -> "price_low"
      [] label = "Price High ($)"     -> "price_high"
      [] label = "Exchange"           -> "exchange"
      [] label = "IPO Date"           -> "date"
      [] label = "IPO Price ($)"      -> "price"

ExpectedColumns ==
    IF IsUpcoming
    THEN <<"Company Name", "Expected Date", "Shares Offered (M)",
           "Price Low ($)", "Price High ($)", "Exchange">>
    ELSE <<"Company Name", "IPO Date", "IPO Price ($)", "Exchange">>

\* C5: for an answer with rows that carry the named fields, the result has
\* exactly the renamed columns in the stated order, and under each label the
\* values of the corresponding source field.
C5_ExactlyTheRenamedColumns ==
    GoodResponse =>
        /\ last.ret.columns = ExpectedColumns
        /\ \A i \in 1..RowCount(last.ret) :
              /\ Len(last.ret.data[i]) = Len(ExpectedColumns)
              /\ \A j \in 1..Len(ExpectedColumns) :
                    last.ret.data[i][j][1] = SourceField(ExpectedColumns[j])

\* an answer whose columns come in another order and with an extra field
C5_Witness ==
    /\ IsUpcoming
    /\ GoodResponse
    /\ Len(last.resp.df.columns) = 7
    /\ last.resp.df.columns[1] = "symbol"
    /\ Len(last.ret.columns) = 6
    /\ last.ret.data[1][4][1] = "price_low"

\* C6: get_upcoming_ipos returns its rows in non-decreasing order of
\* Expected Date, in whatever order the provider supplies them.
C6_UpcomingAscending ==
    (IsUpcoming /\ NonEmptyResponse /\ RowCount(last.ret) >= 1) =>
        /\ HasLabel(last.ret, "Expected Date")
        /\ \A i \in 1..(RowCount(last.ret) - 1) :
              ColumnValues(last.ret, "Expected Date")[i]
                  <= ColumnValues(last.ret, "Expected Date")[i + 1]

\* the provider's dates <<3, 1, 2>> come back as <<1, 2, 3>>
C6_Witness ==
    /\ IsUpcoming
    /\ GoodResponse
    /\ ProviderDates = <<3, 1, 2>>
    /\ ColumnValues(last.ret, "Expected Date") = <<1, 2, 3>>

\* C7: get_past_ipos returns its rows in non-increasing order of IPO Date, in
\* whatever order the provider supplies them.
C7_PastDescending ==
    (IsPast /\ NonEmptyResponse /\ RowCount(last.ret) >= 1) =>
        /\ HasLabel(last.ret, "IPO Date")
        /\ \A i \in 1..(RowCount(last.ret) - 1) :
              ColumnValues(last.ret, "IPO Date")[i] >= ColumnValues(last.ret, "IPO Date")[i + 1]

\* the provider's dates <<1, 2>> come back as <<2, 1>>
C7_Witness ==
    /\ IsPast
    /\ GoodResponse
    /\ ProviderDates = <<1, 2>>
    /\ ColumnValues(last.ret, "IPO Date") = <<2, 1>>

DriverStarted == pc \notin {"import", "import_error"}
AfterShowUpcoming == pc \in {"past", "show_past", "finish", "done"}
AfterShowPast == pc \in {"finish", "done"}

\* the four lines of a labelled table occur in the output, in order
Shown(title, df) ==
    \E i \in 1..(Len(out) - 3) :
        /\ out[i] = Banner
        /\ out[i + 1] = title
        /\ out[i + 2] = Table(df)
        /\ out[i + 3] = Banner

\* the provider's answer to the latest query was a failure or had no rows
NothingFetched == last.resp.status # "ok" \/ ProviderRows = 0

BothQueries == <<<<"get_upcoming_ipos", 10>>, <<"get_past_ipos", 10>>>>

\* C2: a missing or uninitialised SDK is caught at each query: the queries
\* print their error messages and return empty frames, and the process does
\* not end with a failure status.
C2_UnavailableSdkCaughtAtQueries ==
    (sdk \in {"missing", "uninitialized"}) =>
        /\ pc # "import_error"
        /\ exitCode # 1
        /\ pc = "done" =>
              /\ Count(out, UpcomingError) = 1
              /\ Count(out, PastError) = 1
              /\ upcoming_df = EmptyDataFrame
              /\ past_df = EmptyDataFrame

\* C3: once the driver runs, whatever the hook and the queries do, it calls
\* get_upcoming_ipos and then get_past_ipos, each once with limit 10, never
\* stops early, prints the completion notice last and ends with status 0.
C3_DriverRunsBothQueries ==
    /\ [](DriverStarted => (pc # "crashed" /\ exitCode \in {-1, 0}))
    /\ [](calls \in {SubSeq(BothQueries, 1, n) : n \in 0..2})
    /\ [](AfterShowUpcoming => Len(calls) >= 1)
    /\ [](pc = "done" =>
            /\ calls = BothQueries
            /\ exitCode = 0
            /\ Count(out, Finished) = 1
            /\ out[Len(out)] = Finished)
    /\ [](pc = "init" => <>(pc = "done"))

\* the hook and the first query fail, the second query still shows its table
C3_Witness ==
    /\ pc = "done"
    /\ hook = "failed"
    /\ Count(out, UpcomingError) = 1
    /\ upcoming_df = EmptyDataFrame
    /\ Shown(PastTitle, past_df)
    /\ calls = BothQueries
    /\ exitCode = 0

\* C8: log_system_info is called once, at the start of the driver, and the
\* step is the same whether it succeeds or fails: nothing is printed, no
\* result, call or exit status changes, and the script goes on to the first
\* query.
C8_HookOutcomeHasNoEffect ==
    [][/\ pc = "init" =>
            /\ hook = "not_called"
            /\ hook' \in {"ok", "failed"}
            /\ pc' = "upcoming"
            /\ UNCHANGED <<sdk, out, upcoming_df, past_df, exitCode, calls, last>>
       /\ pc # "init" => hook' = hook]_vars

\* a run whose hook failed and that printed both tables
C8_Witness ==
    /\ pc = "done"
    /\ hook = "failed"
    /\ Shown(UpcomingTitle, upcoming_df)
    /\ Shown(PastTitle, past_df)
    /\ exitCode = 0

\* C9: the labelled table of a query is printed exactly when the query
\* returned a non-empty frame; when the query failed or the provider had no
\* rows the frame is empty, no table is printed, and exactly one of the error
\* message and the informational message was printed.
C9_TableIffNonEmpty ==
    /\ AfterShowUpcoming =>
          /\ Shown(UpcomingTitle, upcoming_df) <=> ~Empty(upcoming_df)
          /\ Count(out, UpcomingTitle) = IF Empty(upcoming_df) THEN 0 ELSE 1
          /\ Empty(upcoming_df) =>
                Count(out, UpcomingError) + Count(out, UpcomingNone) = 1
    /\ (pc = "past" /\ NothingFetched) => Empty(upcoming_df)
    /\ AfterShowPast =>
          /\ Shown(PastTitle, past_df) <=> ~Empty(past_df)
          /\ Count(out, PastTitle) = IF Empty(past_df) THEN 0 ELSE 1
          /\ Empty(past_df) => Count(out, PastError) + Count(out, PastNone) = 1
          /\ NothingFetched => Empty(past_df)

\* the first query finds nothing, the second fails, neither table is printed
C9_Witness ==
    /\ pc = "done"
    /\ Count(out, UpcomingNone) = 1
    /\ Count(out, UpcomingError) = 0
    /\ Count(out, PastError) = 1
    /\ Count(out, PastNone) = 0
    /\ Count(out, Table(upcoming_df)) = 0
    /\ Count(out, Table(past_df)) = 0

====
